---- MODULE Spec2Model ----
(***************************************************************************)
(* Finance_Advisor: the deterministic calculator (calc.py), the three-role *)
(* generation pipeline (agents.py, driven by app.py) and the transcript    *)
(* store (utils.py).                                                       *)
(*                                                                         *)
(* Numbers.  Python floats are modelled as exact rationals num/den.        *)
(* Amounts given to the calculator are integers counting thousandths of a  *)
(* rupee; every field the calculator returns is an integer counting        *)
(* hundredths (round(x, 2)).  round() is round-half-to-even.               *)
(***************************************************************************)
EXTENDS Integers, Sequences, FiniteSets, TLC

VARIABLES
    calcCall,      \* the last call of a pure function, [fn, its arguments]
    calcResult,    \* what that call returned (or that it raised)
    now,           \* datetime.now(), in whole ticks
    pc,            \* per run: where the run's thread of control stands
    user_data,     \* per run: the user_data dict built by main
    sip_calc,      \* per run: the sip_calc dict
    agents,        \* per run: the Agent instances, by stage
    lists,         \* the heap of conversation_history list objects, by identity
    pending,       \* per run: the llm.invoke call in flight
    outputs,       \* per run: advisor_output, risk_output, planner_output
    flowResult,    \* per run: the tuple run_multi_agent_flow returned
    invoked,       \* per run: log of the generator invocations (observation)
    made,          \* per run: log of the completed respond calls (observation)
    dirExists,     \* utils.py: whether the output directory exists
    files,         \* the files of the output directory, by path
    saves,         \* per save_conversation call: its position and locals
    loaded,        \* what the last load_conversation call returned or raised
    listed         \* what the last list_conversations call returned

calcVars == <<calcCall, calcResult>>
flowVars == <<now, pc, user_data, sip_calc, agents, lists, pending, outputs,
              flowResult, invoked, made>>
storeVars == <<dirExists, files, saves, loaded, listed>>
vars == <<calcCall, calcResult, now, pc, user_data, sip_calc, agents, lists,
          pending, outputs, flowResult, invoked, made, dirExists, files, saves,
          loaded, listed>>

(***************************************************************************)
(* Bounds of the calculator's input space.                                 *)
(***************************************************************************)
MaxAmountSteps == 4
MaxYears == 2
ArithCap == 2000000000

Abs(x) == IF x < 0 THEN -x ELSE x

RECURSIVE GCD(_, _)
GCD(a, b) == IF b = 0 THEN Abs(a) ELSE GCD(b, a % b)

\* b^n, saturating at ArithCap + 1 (b >= 0), so that it never overflows
RECURSIVE SatPow(_, _)
SatPow(b, n) ==
    IF n = 0 THEN 1
    ELSE LET p == SatPow(b, n - 1)
         IN  IF b = 0 THEN 0
             ELSE IF p > ArithCap \div b THEN ArithCap + 1
             ELSE p * b

RECURSIVE Pow(_, _)
Pow(b, n) == IF n = 0 THEN 1 ELSE b * Pow(b, n - 1)

\* round(num/den) to the nearest integer, ties to the even one (Python round)
RoundHalfEven(num, den) ==
    LET sn == IF den < 0 THEN -num ELSE num
        sd == Abs(den)
        q == sn \div sd
        rem == sn - q * sd
    IN  IF 2 * rem < sd THEN q
        ELSE IF 2 * rem > sd THEN q + 1
        ELSE IF q % 2 = 0 THEN q ELSE q + 1

\* round(x, 2) of x = num/den thousandths, as a count of hundredths
Round2(num, den) == RoundHalfEven(num, den * 10)

(***************************************************************************)
(* r = annual_rate / 12 / 100 as the reduced fraction RateNum / RateDen.   *)
(***************************************************************************)
RateNum(annual_rate) == annual_rate \div GCD(annual_rate, 1200)
RateDen(annual_rate) == 1200 \div GCD(annual_rate, 1200)

\* n = years * 12
Periods(years) == years * 12

\* the degenerate-input test that opens calculate_sip and calculate_emi
IsDegenerateStrictYears(amount, years) == years < 0 \/ amount <= 0
IsDegenerate(amount, years) == years <= 0 \/ amount <= 0

ZeroSip ==
    [status |-> "ok", monthly_sip |-> 0, total_investment |-> 0,
     expected_returns |-> 0, total_value |-> 0]

ZeroEmi ==
    [status |-> "ok", monthly_emi |-> 0, total_payment |-> 0, total_interest |-> 0]

Raised(e) == [status |-> "raised", error |-> e]

NoCall == [fn |-> "none", amount |-> 0, years |-> 0, annual_rate |-> 0]
NoResult == [status |-> "none"]

\* the returned dict of calculate_sip, monthly_sip being num/den thousandths
SipFieldsFromRoundedSip(future_value, n, num, den) ==
    [status |-> "ok",
     monthly_sip |-> Round2(num, den),
     total_investment |-> Round2(num, den) * n,
     expected_returns |-> Round2(future_value * den - num * n, den),
     total_value |-> Round2(future_value, 1)]
SipFields(future_value, n, num, den) ==
    [status |-> "ok",
     monthly_sip |-> Round2(num, den),
     total_investment |-> Round2(num * n, den),
     expected_returns |-> Round2(future_value * den - num * n, den),
     total_value |-> Round2(future_value, 1)]

CalculateSip(future_value, years, annual_rate) ==
    IF IsDegenerate(future_value, years) THEN ZeroSip
    ELSE LET rn == RateNum(annual_rate)
             rd == RateDen(annual_rate)
             n == Periods(years)
         IN  IF rn = 0
             THEN IF n = 0 THEN Raised("ZeroDivisionError")
                  ELSE SipFields(future_value, n, future_value, n)
             ELSE LET den == Pow(rd + rn, n) - Pow(rd, n)
                      num == future_value * rn * Pow(rd, n - 1)
                  IN  IF den = 0 THEN Raised("ZeroDivisionError")
                      ELSE SipFields(future_value, n, num, den)

\* the returned dict of calculate_emi, monthly_emi being num/den thousandths
EmiFields(principal, n, num, den) ==
    [status |-> "ok",
     monthly_emi |-> Round2(num, den),
     total_payment |-> Round2(num * n, den),
     total_interest |-> Round2(num * n - principal * den, den)]

CalculateEmi(principal, years, annual_rate) ==
    IF IsDegenerate(principal, years) THEN ZeroEmi
    ELSE LET rn == RateNum(annual_rate)
             rd == RateDen(annual_rate)
             n == Periods(years)
         IN  IF rn = 0
             THEN IF n = 0 THEN Raised("ZeroDivisionError")
                  ELSE EmiFields(principal, n, principal, n)
             ELSE LET den == rd * (Pow(rd + rn, n) - Pow(rd, n))
                      num == principal * rn * Pow(rd + rn, n)
                  IN  IF den = 0 THEN Raised("ZeroDivisionError")
                      ELSE EmiFields(principal, n, num, den)

(***************************************************************************)
(* The same computation for inputs whose powers exceed the checker's       *)
(* integers: a natural number as its digits to the base Limb, least        *)
(* significant first, zero being the empty sequence.  Sums and counts are  *)
(* taken digit by digit from position i on.                                *)
(***************************************************************************)
Limb == 100 * 100

RECURSIVE BigOf(_)
BigOf(n) == IF n = 0 THEN <<>> ELSE <<n % Limb>> \o BigOf(n \div Limb)

RECURSIVE BigTrim(_)
BigTrim(a) ==
    IF a = <<>> THEN <<>>
    ELSE IF a[Len(a)] = 0 THEN BigTrim(SubSeq(a, 1, Len(a) - 1))
    ELSE a

DigitAt(a, i) == IF i > Len(a) THEN 0 ELSE a[i]

RECURSIVE BigAddFrom(_, _, _, _)
BigAddFrom(a, b, i, carry) ==
    IF i > Len(a) /\ i > Len(b) THEN BigOf(carry)
    ELSE <<(DigitAt(a, i) + DigitAt(b, i) + carry) % Limb>>
         \o BigAddFrom(a, b, i + 1, (DigitAt(a, i) + DigitAt(b, i) + carry) \div Limb)
BigAdd(a, b) == BigTrim(BigAddFrom(a, b, 1, 0))

\* a - b for a >= b
RECURSIVE BigSubFrom(_, _, _, _)
BigSubFrom(a, b, i, borrow) ==
    IF i > Len(a) THEN <<>>
    ELSE <<(a[i] - DigitAt(b, i) - borrow) % Limb>>
         \o BigSubFrom(a, b, i + 1, IF a[i] - DigitAt(b, i) - borrow < 0 THEN 1 ELSE 0)
BigSub(a, b) == BigTrim(BigSubFrom(a, b, 1, 0))

RECURSIVE BigLessFrom(_, _, _)
BigLessFrom(a, b, i) ==
    IF i = 0 THEN FALSE
    ELSE IF a[i] # b[i] THEN a[i] < b[i]
    ELSE BigLessFrom(a, b, i - 1)
BigLess(a, b) ==
    IF Len(a) # Len(b) THEN Len(a) < Len(b) ELSE BigLessFrom(a, b, Len(a))

\* a * m for a machine number m (the carry stays inside the integers)
RECURSIVE BigMulFrom(_, _, _, _)
BigMulFrom(a, m, i, carry) ==
    IF i > Len(a) THEN BigOf(carry)
    ELSE <<(a[i] * m + carry) % Limb>>
         \o BigMulFrom(a, m, i + 1, (a[i] * m + carry) \div Limb)
BigMulSmall(a, m) == BigTrim(BigMulFrom(a, m, 1, 0))

\* a * b, from the top digit of b down; sum is the product with the digits
\* of b above position i
RECURSIVE BigMulDown(_, _, _, _)
BigMulDown(a, b, i, sum) ==
    IF i = 0 THEN sum
    ELSE CHOOSE product \in
             {BigMulDown(a, b, i - 1, next) :
                 next \in {BigAdd(BigMulSmall(a, b[i]), BigTrim(<<0>> \o sum))}} : TRUE
BigMul(a, b) ==
    IF Len(a) < Len(b) THEN BigMulDown(b, a, Len(a), <<>>)
    ELSE BigMulDown(a, b, Len(b), <<>>)

\* b^n by repeated squaring
RECURSIVE BigPow(_, _)
BigPow(b, n) ==
    IF n = 0 THEN <<1>>
    ELSE IF n % 2 = 1
         THEN CHOOSE power \in {BigMulSmall(rest, b) : rest \in {BigPow(b, n - 1)}} : TRUE
         ELSE CHOOSE power \in {BigMul(half, half) : half \in {BigPow(b, n \div 2)}} : TRUE

\* how many times den goes into rem, and what is left, by subtraction
RECURSIVE BigFit(_, _, _)
BigFit(rem, den, k) ==
    IF BigLess(rem, den) THEN [q |-> k, rem |-> rem]
    ELSE CHOOSE fit \in {BigFit(left, den, k + 1) : left \in {BigSub(rem, den)}} : TRUE

\* one decimal place of the count: how many times scale * den goes into
\* what is left so far
BigFitMore(sofar, den, scale) ==
    CHOOSE fit \in
        {[q |-> sofar.q + scale * more.q, rem |-> more.rem] :
            more \in {BigFit(sofar.rem, BigMulSmall(den, scale), 0)}} : TRUE

\* the count for rem < Limb * den: its thousands first, then the hundreds,
\* the tens and the units
BigFitLimb(rem, den) ==
    BigFitMore(BigFitMore(BigFitMore(BigFitMore([q |-> 0, rem |-> rem],
                                                den, 1000), den, 100), den, 10), den, 1)

\* long division of the digits a[1..i] brought down from the top; the
\* quotient is a machine number
RECURSIVE BigDivFrom(_, _, _, _, _)
BigDivFrom(a, den, i, q, rem) ==
    IF i = 0 THEN [q |-> q, rem |-> rem]
    ELSE CHOOSE result \in
             {BigDivFrom(a, den, i - 1, q * Limb + fit.q, fit.rem) :
                 fit \in {BigFitLimb(BigTrim(<<a[i]>> \o rem), den)}} : TRUE
\* the top Len(den) - 1 digits of a are less than den: the division starts
\* below them
BigDivMod(a, den) ==
    IF Len(a) < Len(den) THEN [q |-> 0, rem |-> a]
    ELSE BigDivFrom(a, den, Len(a) - Len(den) + 1, 0,
                    BigTrim(SubSeq(a, Len(a) - Len(den) + 2, Len(a))))

\* round(num/den), ties to even, for num >= 0 and den > 0
RoundHalfEvenWide(num, den) ==
    LET d == BigDivMod(num, den)
        twice == BigMulSmall(d.rem, 2)
    IN  IF BigLess(twice, den) THEN d.q
        ELSE IF BigLess(den, twice) THEN d.q + 1
        ELSE IF d.q % 2 = 0 THEN d.q ELSE d.q + 1

Round2Wide(num, den) == RoundHalfEvenWide(num, BigMulSmall(den, 10))

SipFieldsWideFromRoundedSip(future_value, n, num, den) ==
    [status |-> "ok",
     monthly_sip |-> Round2Wide(num, den),
     total_investment |-> Round2Wide(num, den) * n,
     expected_returns |-> future_value \div 10 - Round2Wide(num, den) * n,
     total_value |-> Round2(future_value, 1)]
SipFieldsWide(future_value, n, num, den) ==
    [status |-> "ok",
     monthly_sip |-> Round2Wide(num, den),
     total_investment |-> Round2Wide(BigMulSmall(num, n), den),
     expected_returns |->
         Round2Wide(BigSub(BigMul(BigOf(future_value), den), BigMulSmall(num, n)), den),
     total_value |-> Round2(future_value, 1)]

\* calculate_sip for a positive rate and a positive amount
CalculateSipWide(future_value, years, annual_rate) ==
    IF IsDegenerate(future_value, years) THEN ZeroSip
    ELSE LET rn == RateNum(annual_rate)
             rd == RateDen(annual_rate)
             n == Periods(years)
             den == BigSub(BigPow(rd + rn, n), BigPow(rd, n))
             num == BigMul(BigMulSmall(BigOf(future_value), rn), BigPow(rd, n - 1))
         IN  SipFieldsWide(future_value, n, num, den)

(***************************************************************************)
(* format_inr.  A float amount is its sign bit, its whole rupees and its   *)
(* thousandths; the inputs tried are amounts that a float holds exactly or *)
(* that are not half-way between two hundredths, so that the two-decimal   *)
(* formatting of the float is the rounding of the amount written here.     *)
(***************************************************************************)
DigitChars == <<"0", "1", "2", "3", "4", "5", "6", "7", "8", "9">>

\* str(n) for n >= 0
RECURSIVE DigitsOf(_)
DigitsOf(n) ==
    IF n < 10 THEN <<DigitChars[n + 1]>>
    ELSE DigitsOf(n \div 10) \o <<DigitChars[(n % 10) + 1]>>

IsZeroAmount(amount) == amount.whole = 0 /\ amount.frac = 0
\* amount < 0: false of the negative zero
IsNegative(amount) == amount.neg /\ ~IsZeroAmount(amount)
\* abs(amount)
AbsAmount(amount) == [amount EXCEPT !.neg = FALSE]

\* f"{amount:.2f}": the sign, the whole part, a point and two digits
AmountStr(amount) ==
    LET cents == RoundHalfEven(amount.frac, 10)
        whole == IF cents = 100 THEN amount.whole + 1 ELSE amount.whole
        dd == IF cents = 100 THEN 0 ELSE cents
    IN  (IF amount.neg THEN <<"-">> ELSE <<>>) \o DigitsOf(whole) \o <<".">>
        \o <<DigitChars[(dd \div 10) + 1], DigitChars[(dd % 10) + 1]>>

\* amount_str.split('.')
RECURSIVE SplitAt(_, _, _, _)
SplitAt(s, sep, part, parts) ==
    IF s = <<>> THEN Append(parts, part)
    ELSE IF Head(s) = sep THEN SplitAt(Tail(s), sep, <<>>, Append(parts, part))
    ELSE SplitAt(Tail(s), sep, Append(part, Head(s)), parts)

\* the while loop: two characters at a time are moved, behind a comma, from
\* the end of remaining to the front of formatted_remaining
RECURSIVE GroupPairs(_, _)
GroupPairs(remaining, formatted_remaining) ==
    IF Len(remaining) > 2
    THEN GroupPairs(SubSeq(remaining, 1, Len(remaining) - 2),
                    <<",">> \o SubSeq(remaining, Len(remaining) - 1, Len(remaining))
                    \o formatted_remaining)
    ELSE remaining \o formatted_remaining

Rupee == "Rs"

\* the Indian grouping of integer_part
GroupDigits(integer_part) ==
    IF Len(integer_part) <= 3 THEN integer_part
    ELSE GroupPairs(SubSeq(integer_part, 1, Len(integer_part) - 3), <<>>)
         \o <<",">> \o SubSeq(integer_part, Len(integer_part) - 2, Len(integer_part))

FormatNonNegative(amount) ==
    LET parts == SplitAt(AmountStr(amount), ".", <<>>, <<>>)
        integer_part == parts[1]
        decimal_part == IF Len(parts) > 1 THEN parts[2] ELSE <<"0", "0">>
        formatted == GroupDigits(integer_part)
    IN  IF decimal_part = <<"0", "0">> THEN <<Rupee>> \o formatted
        ELSE <<Rupee>> \o formatted \o <<".">> \o decimal_part

FormatInr(amount) ==
    IF IsNegative(amount)
    THEN <<"-", Rupee>> \o Tail(FormatNonNegative(AbsAmount(amount)))
    ELSE FormatNonNegative(amount)

(***************************************************************************)
(* agents.py and the part of app.py's main that drives it.                 *)
(*                                                                         *)
(* A text is a sequence of one-character strings; a prompt is a sequence   *)
(* of tokens, the fixed parts of a template being one token each and an    *)
(* interpolated text contributing its characters.                          *)
(***************************************************************************)
MaxTextLen == 2
MaxRuns == 2
MaxClock == 1
MaxCalls == 2

Runs == 1..MaxRuns
Stages == <<"advisor", "risk_analyst", "planner">>
StageSet == {"advisor", "risk_analyst", "planner"}

RECURSIVE SeqsUpTo(_, _)
SeqsUpTo(S, n) ==
    IF n = 0 THEN {<<>>}
    ELSE LET shorter == SeqsUpTo(S, n - 1)
         IN  shorter \cup {Append(t, c) : t \in shorter, c \in S}

\* what llm.invoke may return as content, and the str(e) of what it may raise
Texts == SeqsUpTo({" ", "x"}, MaxTextLen)
ShortTexts == {<<"x">>}
Errors == {<<>>, <<"e">>}
ShortErrors == {<<"e">>}

\* a variable not yet assigned
Unset == <<"<unset>">>
NoOutputs == [advisor |-> Unset, risk_analyst |-> Unset, planner |-> Unset]

\* str.strip()
RECURSIVE LStrip(_)
LStrip(t) == IF t # <<>> /\ Head(t) = " " THEN LStrip(Tail(t)) ELSE t
RECURSIVE RStrip(_)
RStrip(t) ==
    IF t # <<>> /\ t[Len(t)] = " " THEN RStrip(SubSeq(t, 1, Len(t) - 1)) ELSE t
Strip(t) == RStrip(LStrip(t))

\* text in prompt: prompt holds text as a contiguous run of tokens
Contains(prompt, text) ==
    \E i \in 1..(Len(prompt) + 1) :
        /\ i + Len(text) - 1 <= Len(prompt)
        /\ SubSeq(prompt, i, i + Len(text) - 1) = text

\* f"{x:,}" of a number
Fmt(x) == ToString(x)

(***************************************************************************)
(* main: the form, its validation and the calculate_sip call.  The form's  *)
(* rates (5..15 per cent) are outside what CalculateSip can evaluate in    *)
(* the checker's integers, so the result of calculate_sip at the form's    *)
(* values is tabulated (hundredths of a rupee).                            *)
(***************************************************************************)
Forms ==
    {[monthly_income |-> 50000, target_amount |-> 1000000, years |-> 5,
      risk_profile |-> "Medium", annual_return |-> 12, notes |-> ""],
     [monthly_income |-> 0, target_amount |-> 1000000, years |-> 5,
      risk_profile |-> "Medium", annual_return |-> 12, notes |-> ""],
     [monthly_income |-> 50000, target_amount |-> 0, years |-> 5,
      risk_profile |-> "Medium", annual_return |-> 12, notes |-> ""]}

FormSip(form) ==
    IF form.target_amount <= 0 \/ form.years <= 0
    THEN [monthly_sip |-> 0, total_investment |-> 0, expected_returns |-> 0,
          total_value |-> 0]
    ELSE [monthly_sip |-> 1224445, total_investment |-> 73466686,
          expected_returns |-> 26533314, total_value |-> 100000000]

\* main's validation of the form
FormRejected(form) == form.monthly_income <= 0 \/ form.target_amount <= 0

(***************************************************************************)
(* Agent and its three subclasses.                                         *)
(***************************************************************************)
RoleOf(stage) ==
    CASE stage = "advisor" -> "Vittiya Salahkar"
      [] stage = "risk_analyst" -> "Jokhim Vishleshak"
      [] stage = "planner" -> "Vittiya Yojanakarta"
      [] OTHER -> "Agent"

SystemPromptOf(stage) ==
    CASE stage = "advisor" -> "advisor persona"
      [] stage = "risk_analyst" -> "risk analyst persona"
      [] stage = "planner" -> "planner persona"
      [] OTHER -> "default persona"

ContextOf(stage) ==
    CASE stage = "advisor" -> "advise on the Indian market"
      [] stage = "risk_analyst" -> "attend to financial safety"
      [] OTHER -> "make a structured plan"

\* the list object that field(default_factory=list) creates for one instance
SharedHistoryList(r, stage) == <<0, "shared">>
HistoryList(r, stage) == <<r, stage>>

\* Agent.__init__ / __post_init__
NewAgent(r, stage) ==
    [role |-> RoleOf(stage), system_prompt |-> SystemPromptOf(stage),
     conversation_history |-> HistoryList(r, stage)]

\* the two messages respond builds
SystemMessage(agent, context) == <<"rule: Hindi only", agent.system_prompt, context>>
HumanMessage(prompt) == <<"question:">> \o prompt \o <<"answer (Hindi only):">>

\* AdvisorAgent.analyze's prompt
AdvisorPrompt(ud, sc) ==
    <<"user:", Fmt(ud.monthly_income), Fmt(ud.target_amount), Fmt(ud.years),
      ud.risk_profile, "calculation:", Fmt(sc.monthly_sip),
      Fmt(sc.total_investment), Fmt(sc.expected_returns), "advisor task">>

\* sip_to_income_ratio, formatted .1f: tenths of a per cent
SipToIncomeRatio(ud, sc) == RoundHalfEven(sc.monthly_sip * 10, ud.monthly_income)

\* RiskAnalystAgent.analyze's prompt
RiskPromptWithoutAdvice(ud, sc, advisor_suggestion) ==
    <<"advisor's suggestion:">>
    \o <<"analysis:", Fmt(SipToIncomeRatio(ud, sc)), ud.risk_profile,
         Fmt(ud.years), Fmt(ud.monthly_income), Fmt(sc.monthly_sip), "risk task">>
RiskPrompt(ud, sc, advisor_suggestion) ==
    <<"advisor's suggestion:">> \o advisor_suggestion
    \o <<"analysis:", Fmt(SipToIncomeRatio(ud, sc)), ud.risk_profile,
         Fmt(ud.years), Fmt(ud.monthly_income), Fmt(sc.monthly_sip), "risk task">>

\* PlannerAgent.create_plan's prompt
PlannerPrompt(ud, sc, advisor_advice, risk_analysis) ==
    <<"advisor's opinion:">> \o advisor_advice
    \o <<"risk analyst's opinion:">> \o risk_analysis
    \o <<"user data:", Fmt(ud.monthly_income), Fmt(ud.target_amount),
         Fmt(ud.years), Fmt(sc.monthly_sip), ud.risk_profile, "plan task",
         Fmt(sc.monthly_sip), "plan task end">>

\* the entries respond appends
SuccessEntry(agent, prompt, context, response, t) ==
    [role |-> agent.role, prompt |-> prompt, context |-> context,
     response |-> response, timestamp |-> t]
ErrorEntry(agent, e, t) ==
    [role |-> agent.role, error |-> e,
     traceback |-> <<"Traceback (most recent call last):">> \o e, timestamp |-> t]

\* error_msg
ErrorMsgWithoutDetail(e) == <<"Truti: ">>
ErrorMsg(e) == <<"Truti: ">> \o e

\* conversation_history.append(entry)
PrependEntry(history, entry) == <<entry>> \o history
AppendEntry(history, entry) == Append(history, entry)

\* the statement of run_multi_agent_flow (or of a direct caller) that follows
\* the return of a stage's respond
AfterStageSkippingRisk(stage) ==
    CASE stage = "advisor" -> "planner"
      [] stage = "risk_analyst" -> "planner"
      [] stage = "planner" -> "return"
      [] OTHER -> "agent_ready"
AfterStage(stage) ==
    CASE stage = "advisor" -> "risk"
      [] stage = "risk_analyst" -> "planner"
      [] stage = "planner" -> "return"
      [] OTHER -> "agent_ready"

NoPending == [stage |-> "none"]

\* Agent.respond up to and including the call of self.llm.invoke
Invoke(r, stage, prompt, context) ==
    LET agent == agents[r][stage]
        call == [stage |-> stage, prompt |-> prompt, context |-> context,
                 system |-> SystemMessage(agent, context),
                 human |-> HumanMessage(prompt)]
    IN  /\ pending' = [pending EXCEPT ![r] = call]
        /\ invoked' = [invoked EXCEPT
                         ![r] = Append(@, [stage |-> stage, system |-> call.system,
                                           human |-> call.human,
                                           seen |-> outputs[r]])]

\* main, from the button press to the call of run_multi_agent_flow
Main(r, form) ==
    /\ pc[r] = "idle"
    /\ IF FormRejected(form)
       THEN /\ pc' = [pc EXCEPT ![r] = "rejected"]
            /\ UNCHANGED <<user_data, sip_calc>>
       ELSE /\ pc' = [pc EXCEPT ![r] = "flow"]
            /\ user_data' = [user_data EXCEPT ![r] = form]
            /\ sip_calc' = [sip_calc EXCEPT ![r] = FormSip(form)]
    /\ UNCHANGED <<now, agents, lists, pending, outputs, flowResult, invoked, made>>
    /\ UNCHANGED <<calcVars, storeVars>>

\* a caller other than main calls run_multi_agent_flow(llm, user_data,
\* sip_calc) with a user_data of its own
CallRunMultiAgentFlow(r, ud) ==
    /\ pc[r] = "idle"
    /\ pc' = [pc EXCEPT ![r] = "flow"]
    /\ user_data' = [user_data EXCEPT ![r] = ud]
    /\ sip_calc' = [sip_calc EXCEPT ![r] = FormSip(ud)]
    /\ UNCHANGED <<now, agents, lists, pending, outputs, flowResult, invoked, made>>
    /\ UNCHANGED <<calcVars, storeVars>>

\* run_multi_agent_flow: "Initialize all agents"
RunMultiAgentFlow(r) ==
    /\ pc[r] = "flow"
    /\ agents' = [agents EXCEPT ![r] = [s \in StageSet |-> NewAgent(r, s)]]
    /\ LET new == {NewAgent(r, s).conversation_history : s \in StageSet}
       IN  lists' = [id \in DOMAIN lists \cup new |->
                        IF id \in DOMAIN lists THEN lists[id] ELSE <<>>]
    /\ pc' = [pc EXCEPT ![r] = "advisor"]
    /\ UNCHANGED <<now, user_data, sip_calc, pending, outputs, flowResult,
                   invoked, made>>
    /\ UNCHANGED <<calcVars, storeVars>>

\* Step 1: advisor.analyze, up to the generator call
AdvisorAnalyze(r) ==
    /\ pc[r] = "advisor"
    /\ Invoke(r, "advisor", AdvisorPrompt(user_data[r], sip_calc[r]),
              ContextOf("advisor"))
    /\ pc' = [pc EXCEPT ![r] = "wait"]
    /\ UNCHANGED <<now, user_data, sip_calc, agents, lists, outputs, flowResult, made>>
    /\ UNCHANGED <<calcVars, storeVars>>

\* Step 2: risk_analyst.analyze, up to the generator call; the ratio divides by
\* monthly_income, and a ZeroDivisionError leaves run_multi_agent_flow
RiskAnalyze(r) ==
    /\ pc[r] = "risk"
    /\ IF user_data[r].monthly_income = 0
       THEN /\ pc' = [pc EXCEPT ![r] = "raised"]
            /\ UNCHANGED <<pending, invoked>>
       ELSE /\ Invoke(r, "risk_analyst",
                      RiskPrompt(user_data[r], sip_calc[r], outputs[r].advisor),
                      ContextOf("risk_analyst"))
            /\ pc' = [pc EXCEPT ![r] = "wait"]
    /\ UNCHANGED <<now, user_data, sip_calc, agents, lists, outputs, flowResult, made>>
    /\ UNCHANGED <<calcVars, storeVars>>

\* Step 3: planner.create_plan, up to the generator call
CreatePlan(r) ==
    /\ pc[r] = "planner"
    /\ Invoke(r, "planner",
              PlannerPrompt(user_data[r], sip_calc[r], outputs[r].advisor,
                            outputs[r].risk_analyst),
              ContextOf("planner"))
    /\ pc' = [pc EXCEPT ![r] = "wait"]
    /\ UNCHANGED <<now, user_data, sip_calc, agents, lists, outputs, flowResult, made>>
    /\ UNCHANGED <<calcVars, storeVars>>

\* the rest of Agent.respond once llm.invoke has returned or raised: the entry
\* is appended, the text is returned and assigned by the caller
Responded(r, outcome, entry, returned) ==
    LET stage == pending[r].stage
        agent == agents[r][stage]
    IN  /\ lists' = [lists EXCEPT ![agent.conversation_history] = AppendEntry(@, entry)]
        /\ made' = [made EXCEPT ![r] = Append(@, [stage |-> stage, outcome |-> outcome,
                                                  entry |-> entry,
                                                  returned |-> returned])]
        /\ outputs' = IF stage \in StageSet
                      THEN [outputs EXCEPT ![r][stage] = returned]
                      ELSE outputs
        /\ pending' = [pending EXCEPT ![r] = NoPending]
        /\ pc' = [pc EXCEPT ![r] = AfterStage(stage)]
        /\ UNCHANGED <<now, user_data, sip_calc, agents, flowResult, invoked>>
        /\ UNCHANGED <<calcVars, storeVars>>

\* llm.invoke returns content `text`
LlmReturns(r, text) ==
    /\ pc[r] = "wait"
    /\ Responded(r, "ok",
                 SuccessEntry(agents[r][pending[r].stage], pending[r].prompt,
                              pending[r].context, text, now),
                 Strip(text))

\* llm.invoke raises an exception whose str() is e
LlmRaises(r, e) ==
    /\ pc[r] = "wait"
    /\ Responded(r, "error", ErrorEntry(agents[r][pending[r].stage], e, now),
                 ErrorMsg(e))

\* return advisor_output, risk_output, planner_output
FlowReturn(r) ==
    /\ pc[r] = "return"
    /\ flowResult' = [flowResult EXCEPT
                        ![r] = <<outputs[r].advisor, outputs[r].risk_analyst,
                                 outputs[r].planner>>]
    /\ pc' = [pc EXCEPT ![r] = "done"]
    /\ UNCHANGED <<now, user_data, sip_calc, agents, lists, pending, outputs,
                   invoked, made>>
    /\ UNCHANGED <<calcVars, storeVars>>

\* a caller other than run_multi_agent_flow calls respond on an Agent it holds
DirectRespond(r, prompt, context) ==
    /\ pc[r] = "agent_ready"
    /\ Len(lists[agents[r]["direct"].conversation_history]) < MaxCalls
    /\ Invoke(r, "direct", prompt, context)
    /\ pc' = [pc EXCEPT ![r] = "wait"]
    /\ UNCHANGED <<now, user_data, sip_calc, agents, lists, outputs, flowResult, made>>
    /\ UNCHANGED <<calcVars, storeVars>>

\* the clock advances
Tick ==
    /\ now < MaxClock
    /\ now' = now + 1
    /\ UNCHANGED <<pc, user_data, sip_calc, agents, lists, pending, outputs,
                   flowResult, invoked, made>>
    /\ UNCHANGED <<calcVars, storeVars>>

NoForm ==
    [monthly_income |-> 0, target_amount |-> 0, years |-> 0, risk_profile |-> "",
     annual_return |-> 0, notes |-> ""]

InitFlowIdle ==
    /\ now = 0
    /\ pc = [r \in Runs |-> "idle"]
    /\ user_data = [r \in Runs |-> NoForm]
    /\ sip_calc = [r \in Runs |-> FormSip(NoForm)]
    /\ agents = [r \in Runs |-> <<>>]
    /\ lists = <<>>
    /\ pending = [r \in Runs |-> NoPending]
    /\ outputs = [r \in Runs |-> NoOutputs]
    /\ flowResult = [r \in Runs |-> <<>>]
    /\ invoked = [r \in Runs |-> <<>>]
    /\ made = [r \in Runs |-> <<>>]

(***************************************************************************)
(* utils.py: the transcript store.                                         *)
(*                                                                         *)
(* JSON.  A Python value that json.dump accepts is modelled as a tagged    *)
(* value: a number, a string (sequence of characters) or a dict (sequence  *)
(* of members in insertion order).  A file's content is a sequence of      *)
(* tokens: the punctuation, one token per member name, one per number and  *)
(* one per character of a string.                                          *)
(***************************************************************************)
JNum(n) == [t |-> "num", v |-> n]
JStr(s) == [t |-> "str", v |-> s]
JObj(members) == [t |-> "obj", v |-> members]
Member(k, v) == [k |-> k, v |-> v]

Whitespace == {" ", "\n"}

\* str.split(): the maximal runs of non-whitespace characters
RECURSIVE SplitWords(_, _, _)
SplitWords(text, word, words) ==
    IF text = <<>>
    THEN IF word = <<>> THEN words ELSE Append(words, word)
    ELSE IF Head(text) \in Whitespace
         THEN SplitWords(Tail(text), <<>>,
                         IF word = <<>> THEN words ELSE Append(words, word))
         ELSE SplitWords(Tail(text), Append(word, Head(text)), words)

\* " ".join(words)
RECURSIVE JoinWords(_)
JoinWords(words) ==
    IF words = <<>> THEN <<>>
    ELSE IF Len(words) = 1 THEN words[1]
    ELSE words[1] \o <<" ">> \o JoinWords(Tail(words))

\* s.rsplit(' ', 1)[0]
RECURSIVE BeforeLastSpace(_, _)
BeforeLastSpace(s, i) ==
    IF i = 0 THEN s
    ELSE IF s[i] = " " THEN SubSeq(s, 1, i - 1)
    ELSE BeforeLastSpace(s, i - 1)

SummarizeShort(text, max_length) ==
    IF text = <<>> THEN <<>>
    ELSE LET joined == JoinWords(SplitWords(text, <<>>, <<>>))
         IN  IF Len(joined) <= max_length THEN joined
             ELSE LET cut == SubSeq(joined, 1, max_length)
                  IN  BeforeLastSpace(cut, Len(cut)) \o <<".", ".", ".">>

SummaryLength == 100

\* json.dump's encoding of one character of a string
EscapeNothing(c) == <<c>>
EscapeChar(c) ==
    IF c = "\"" \/ c = "\\" THEN <<"\\", c>>
    ELSE IF c = "\n" THEN <<"\\", "n">>
    ELSE <<c>>

RECURSIVE EscapeAll(_)
EscapeAll(s) == IF s = <<>> THEN <<>> ELSE EscapeChar(Head(s)) \o EscapeAll(Tail(s))

RECURSIVE DumpValue(_)
RECURSIVE DumpMembers(_)
DumpMembers(ms) ==
    IF ms = <<>> THEN <<>>
    ELSE <<ms[1].k, ":">> \o DumpValue(ms[1].v)
         \o (IF Len(ms) > 1 THEN <<",">> \o DumpMembers(Tail(ms)) ELSE <<>>)
\* json.dump(value, f, ensure_ascii=False, indent=2), as the tokens written
DumpValue(value) ==
    CASE value.t = "num" -> <<ToString(value.v)>>
      [] value.t = "str" -> <<"\"">> \o EscapeAll(value.v) \o <<"\"">>
      [] OTHER -> <<"{">> \o DumpMembers(value.v) \o <<"}">>

(***************************************************************************)
(* save_conversation's arguments and the record it builds.                 *)
(***************************************************************************)
MaxSaves == 2
Saves == 1..MaxSaves

SavedForm ==
    [monthly_income |-> 50000, target_amount |-> 1000000, years |-> 5,
     risk_profile |-> "Medium", annual_return |-> 12, notes |-> ""]

\* the argument tuples tried: texts of different lengths, with a quote, a
\* line break and a run of spaces among the characters
SaveArgs ==
    {[user_data |-> SavedForm, sip_calc |-> FormSip(SavedForm),
      advisor_output |-> <<"x">>, risk_output |-> <<"y">>,
      planner_output |-> <<"z">>],
     [user_data |-> [SavedForm EXCEPT !.notes = "n"], sip_calc |-> FormSip(SavedForm),
      advisor_output |-> <<"a", "\"", " ", " ", "b", "\n">>, risk_output |-> <<>>,
      planner_output |-> <<"\\", "z">>]}

NoArgs ==
    [user_data |-> NoForm, sip_calc |-> FormSip(NoForm), advisor_output |-> <<>>,
     risk_output |-> <<>>, planner_output |-> <<>>]

Seconds == 0..MaxClock

Numbers ==
    UNION {{a.user_data.monthly_income, a.user_data.target_amount, a.user_data.years,
            a.user_data.annual_return, a.sip_calc.monthly_sip,
            a.sip_calc.total_investment, a.sip_calc.expected_returns,
            a.sip_calc.total_value} : a \in SaveArgs}

KeyNames ==
    {"timestamp", "date_readable", "user_input", "calculations", "agent_outputs",
     "advisor", "risk_analyst", "planner", "role", "output", "summary", "metadata",
     "version", "system", "monthly_income", "target_amount", "years", "risk_profile",
     "annual_return", "notes", "monthly_sip", "total_investment", "expected_returns",
     "total_value"}

\* json.load: the reading of a value that starts at token i; the result says
\* whether a value was read, which, and where the next token is
BadJson == [ok |-> FALSE, v |-> JNum(0), next |-> 0]
Parsed(v, next) == [ok |-> TRUE, v |-> v, next |-> next]

RECURSIVE ParseString(_, _, _)
ParseString(toks, i, acc) ==
    IF i > Len(toks) THEN BadJson
    ELSE IF toks[i] = "\"" THEN Parsed(JStr(acc), i + 1)
    ELSE IF toks[i] = "\n" THEN BadJson
    ELSE IF toks[i] = "\\"
         THEN IF i + 1 > Len(toks) THEN BadJson
              ELSE IF toks[i + 1] = "n" THEN ParseString(toks, i + 2, Append(acc, "\n"))
              ELSE IF toks[i + 1] = "\"" \/ toks[i + 1] = "\\"
                   THEN ParseString(toks, i + 2, Append(acc, toks[i + 1]))
              ELSE BadJson
    ELSE ParseString(toks, i + 1, Append(acc, toks[i]))

\* a dict keeps one member per name: a repeated name keeps its place and
\* takes the later value
RECURSIVE PutMember(_, _, _)
PutMember(ms, k, v) ==
    IF ms = <<>> THEN <<Member(k, v)>>
    ELSE IF ms[1].k = k THEN <<Member(k, v)>> \o Tail(ms)
    ELSE <<ms[1]>> \o PutMember(Tail(ms), k, v)

RECURSIVE ParseValue(_, _)
RECURSIVE ParseMembers(_, _, _)
ParseMembers(toks, i, acc) ==
    IF i + 1 > Len(toks) THEN BadJson
    ELSE IF toks[i] \notin KeyNames \/ toks[i + 1] # ":" THEN BadJson
    ELSE LET val == ParseValue(toks, i + 2)
         IN  IF ~val.ok \/ val.next > Len(toks) THEN BadJson
             ELSE IF toks[val.next] = ","
                  THEN ParseMembers(toks, val.next + 1, PutMember(acc, toks[i], val.v))
             ELSE IF toks[val.next] = "}"
                  THEN Parsed(JObj(PutMember(acc, toks[i], val.v)), val.next + 1)
             ELSE BadJson
ParseValue(toks, i) ==
    IF i > Len(toks) THEN BadJson
    ELSE IF toks[i] = "{"
         THEN IF i + 1 <= Len(toks) /\ toks[i + 1] = "}"
              THEN Parsed(JObj(<<>>), i + 2)
              ELSE ParseMembers(toks, i + 1, <<>>)
    ELSE IF toks[i] = "\"" THEN ParseString(toks, i + 1, <<>>)
    ELSE IF \E n \in Numbers : Fmt(n) = toks[i]
         THEN Parsed(JNum(CHOOSE n \in Numbers : Fmt(n) = toks[i]), i + 1)
    ELSE BadJson

\* json.load(f): the whole content is one value; anything else is a
\* JSONDecodeError
JsonLoad(toks) ==
    LET val == ParseValue(toks, 1)
    IN  IF val.ok /\ val.next = Len(toks) + 1
        THEN [status |-> "ok", data |-> val.v]
        ELSE [status |-> "JSONDecodeError", data |-> JNum(0)]

\* data[name] of a loaded dict; a missing name is told apart by Has
Has(value, name) == value.t = "obj" /\ \E i \in 1..Len(value.v) : value.v[i].k = name
Get(value, name) == value.v[CHOOSE i \in 1..Len(value.v) : value.v[i].k = name].v

\* a str the model keeps whole: its characters are one token
Word(s) == JStr(IF s = "" THEN <<>> ELSE <<s>>)

UserInputJson(d) ==
    JObj(<<Member("monthly_income", JNum(d.monthly_income)),
           Member("target_amount", JNum(d.target_amount)),
           Member("years", JNum(d.years)),
           Member("risk_profile", Word(d.risk_profile)),
           Member("annual_return", JNum(d.annual_return)),
           Member("notes", Word(d.notes))>>)

CalculationsJson(c) ==
    JObj(<<Member("monthly_sip", JNum(c.monthly_sip)),
           Member("total_investment", JNum(c.total_investment)),
           Member("expected_returns", JNum(c.expected_returns)),
           Member("total_value", JNum(c.total_value))>>)

SecondsPerMinute == 60

\* datetime.now().isoformat() and .strftime("%d %B %Y, %I:%M %p")
IsoFormat(t) == Word(Fmt(t))
DateReadable(t) == Word(Fmt(t \div SecondsPerMinute))

AgentOutputJson(label, text) ==
    JObj(<<Member("role", Word(label)),
           Member("output", JStr(text)),
           Member("summary", JStr(SummarizeShort(text, SummaryLength)))>>)

ConversationData(args, timestamp, date_readable) ==
    JObj(<<Member("timestamp", timestamp),
           Member("date_readable", date_readable),
           Member("user_input", UserInputJson(args.user_data)),
           Member("calculations", CalculationsJson(args.sip_calc)),
           Member("agent_outputs",
                  JObj(<<Member("advisor",
                                AgentOutputJson("Salahkar (Advisor)", args.advisor_output)),
                         Member("risk_analyst",
                                AgentOutputJson("Jokhim Vishleshak (Risk Analyst)",
                                                args.risk_output)),
                         Member("planner",
                                AgentOutputJson("Yojanakartta (Planner)",
                                                args.planner_output))>>)),
           Member("metadata",
                  JObj(<<Member("version", Word("1.0")),
                         Member("system", Word("Multi-Agent Hindi Finance Advisor"))>>))>>)

\* os.path.join(output_dir, f"finance_plan_{timestamp_str}.json")
OutputDir == "logs"
FilenameOf(output_dir, t) == <<output_dir, "finance_plan_", Fmt(t), ".json">>
Paths == {FilenameOf(OutputDir, t) : t \in Seconds}
NoPath == <<>>

(***************************************************************************)
(* The directory, as the operating system keeps it, and the calls in       *)
(* flight.  A save is a thread of control of its own: the clock may        *)
(* advance, and other saves and loads may run, between any two of its      *)
(* statements.                                                             *)
(***************************************************************************)
BufferSize == 96

IdleSave ==
    [pc |-> "idle", args |-> NoArgs, timestamp |-> Word(""),
     date_readable |-> Word(""), filename |-> NoPath, offset |-> 0,
     disturbed |-> FALSE]

NotLoaded ==
    [path |-> NoPath, status |-> "none", data |-> JNum(0), after |-> {},
     intact |-> {}]

Min2(a, b) == IF a <= b THEN a ELSE b

\* write(2) at an offset: the bytes replace what was there, the file grows
\* as needed (a gap reads as NUL bytes), and nothing after them is removed
RECURSIVE Nuls(_)
Nuls(n) == IF n <= 0 THEN <<>> ELSE <<"NUL">> \o Nuls(n - 1)
WriteAt(content, offset, chunk) ==
    IF offset >= Len(content)
    THEN content \o Nuls(offset - Len(content)) \o chunk
    ELSE SubSeq(content, 1, offset) \o chunk
         \o SubSeq(content, offset + Len(chunk) + 1, Len(content))

\* the saves that have opened the path f and are thereby exposed to what
\* save s does to it
SharesFile(s, q, f) ==
    q # s /\ saves[q].filename = f /\ saves[q].pc \in {"open", "done"}

Disturb(s, f, own) ==
    [q \in Saves |-> IF q = s THEN own
                     ELSE IF SharesFile(s, q, f)
                          THEN [saves[q] EXCEPT !.disturbed = TRUE]
                          ELSE saves[q]]

\* line 96: the record's timestamp is read from the clock (the calls are
\* numbered in the order in which they begin)
SaveConversation(s, args) ==
    /\ saves[s].pc = "idle"
    /\ \A q \in Saves : q < s => saves[q].pc # "idle"
    /\ saves' = [saves EXCEPT ![s] = [@ EXCEPT !.pc = "stamped", !.args = args,
                                                !.timestamp = IsoFormat(now)]]
    /\ UNCHANGED <<dirExists, files, loaded, listed>>
    /\ UNCHANGED <<calcVars, flowVars>>

\* line 97: the clock is read again; lines 95-121 complete the record
SaveDateReadable(s) ==
    /\ saves[s].pc = "stamped"
    /\ saves' = [saves EXCEPT ![s] = [@ EXCEPT !.pc = "built",
                                                !.date_readable = DateReadable(now)]]
    /\ UNCHANGED <<dirExists, files, loaded, listed>>
    /\ UNCHANGED <<calcVars, flowVars>>

\* os.makedirs(output_dir) without exist_ok: FileExistsError when the
\* directory is there
SaveMakedirsNotExistOk(s) ==
    /\ saves[s].pc = "built"
    /\ dirExists' = TRUE
    /\ saves' = [saves EXCEPT ![s].pc = IF dirExists THEN "raised" ELSE "dir"]
    /\ UNCHANGED <<files, loaded, listed>>
    /\ UNCHANGED <<calcVars, flowVars>>

\* line 124: os.makedirs(output_dir, exist_ok=True)
SaveMakedirs(s) ==
    /\ saves[s].pc = "built"
    /\ dirExists' = TRUE
    /\ saves' = [saves EXCEPT ![s].pc = "dir"]
    /\ UNCHANGED <<files, loaded, listed>>
    /\ UNCHANGED <<calcVars, flowVars>>

\* lines 127-128: the clock is read a third time, for the file name
SaveFilename(s) ==
    /\ saves[s].pc = "dir"
    /\ saves' = [saves EXCEPT ![s] = [@ EXCEPT !.pc = "named",
                                                !.filename = FilenameOf(OutputDir, now)]]
    /\ UNCHANGED <<dirExists, files, loaded, listed>>
    /\ UNCHANGED <<calcVars, flowVars>>

\* line 131: open(filename, 'w') creates the file or empties it
SaveOpen(s) ==
    /\ saves[s].pc = "named"
    /\ LET f == saves[s].filename
       IN  IF dirExists
           THEN /\ files' = [g \in DOMAIN files \cup {f} |->
                               IF g = f
                               THEN [content |-> <<>>, mtime |-> now, writer |-> 0]
                               ELSE files[g]]
                /\ saves' = Disturb(s, f, [saves[s] EXCEPT !.pc = "open", !.offset = 0,
                                                          !.disturbed = FALSE])
           ELSE /\ saves' = [saves EXCEPT ![s].pc = "raised"]
                /\ UNCHANGED files
    /\ UNCHANGED <<dirExists, loaded, listed>>
    /\ UNCHANGED <<calcVars, flowVars>>

SaveData(s) ==
    DumpValue(ConversationData(saves[s].args, saves[s].timestamp,
                               saves[s].date_readable))

\* line 132 and the end of the with block: the text is written through the
\* file's buffer, a buffer's worth at a time, the rest when the file is
\* closed; line 134 returns the file name
SaveWrite(s) ==
    /\ saves[s].pc = "open"
    /\ LET f == saves[s].filename
           data == SaveData(s)
           upto == Min2(saves[s].offset + BufferSize, Len(data))
           chunk == SubSeq(data, saves[s].offset + 1, upto)
       IN  /\ files' = [files EXCEPT ![f] =
                          [content |-> WriteAt(@.content, saves[s].offset, chunk),
                           mtime |-> now, writer |-> s]]
           /\ saves' = Disturb(s, f, [saves[s] EXCEPT
                                        !.pc = IF upto = Len(data) THEN "done" ELSE "open",
                                        !.offset = upto])
    /\ UNCHANGED <<dirExists, loaded, listed>>
    /\ UNCHANGED <<calcVars, flowVars>>

Returned(s) == IF saves[s].pc = "done" THEN saves[s].filename ELSE NoPath

\* load_conversation(filename): open(filename, 'r') and json.load
LoadConversation(path) ==
    /\ LET done == {s \in Saves : saves[s].pc = "done"}
           read == IF path \in DOMAIN files
                   THEN JsonLoad(files[path].content)
                   ELSE [status |-> "FileNotFoundError", data |-> JNum(0)]
       IN  loaded' = [path |-> path, status |-> read.status, data |-> read.data,
                      after |-> done,
                      intact |-> {s \in done : ~saves[s].disturbed}]
    /\ UNCHANGED <<dirExists, files, saves, listed>>
    /\ UNCHANGED <<calcVars, flowVars>>

(***************************************************************************)
(* list_conversations(output_dir).  A path is the sequence of the parts    *)
(* os.path.join puts together, the directory first; the name's last part   *)
(* is its extension.                                                       *)
(***************************************************************************)
NotListed == [status |-> "none", entries |-> <<>>, existed |-> FALSE, seen |-> <<>>]

EndsWithJson(path) == path[Len(path)] = ".json"

\* lines 185-195: the entry of one file, from its os.stat
EntryOf(path) ==
    [filename |-> Tail(path), filepath |-> path,
     modified_time |-> files[path].mtime,
     timestamp |-> IsoFormat(files[path].mtime),
     size_bytes |-> Len(files[path].content)]

\* line 198: sort(key = timestamp, reverse = True).  The ISO text of a time
\* has fixed-width fields, so the order of the texts is the order of the
\* times.
OldestFirst(entries) ==
    \A i, j \in 1..Len(entries) :
        i < j => entries[i].modified_time <= entries[j].modified_time

NewestFirst(entries) ==
    \A i, j \in 1..Len(entries) :
        i < j => entries[i].modified_time >= entries[j].modified_time

\* the sequences that hold each of the entries once
Arrangements(S) ==
    {e \in [1..Cardinality(S) -> S] : \A i, j \in DOMAIN e : e[i] = e[j] => i = j}

\* os.listdir yields the names in no particular order and the sort is
\* stable, so entries of equal timestamp come out in any order
ListConversations ==
    /\ IF ~dirExists
       THEN listed' = [status |-> "ok", entries |-> <<>>, existed |-> FALSE,
                       seen |-> files]
       ELSE \E entries \in Arrangements({EntryOf(f) : f \in {g \in DOMAIN files :
                                                               EndsWithJson(g)}}) :
               /\ NewestFirst(entries)
               /\ listed' = [status |-> "ok", entries |-> entries, existed |-> TRUE,
                             seen |-> files]
    /\ UNCHANGED <<dirExists, files, saves, loaded>>
    /\ UNCHANGED <<calcVars, flowVars>>

\* what the directory may hold before the program runs: nothing (absent or
\* empty), or files that are not transcripts
OtherFile == [content |-> <<"{", "}">>, mtime |-> 0, writer |-> 0]
Directories ==
    {[exists |-> FALSE, files |-> <<>>],
     [exists |-> TRUE, files |-> <<>>],
     [exists |-> TRUE,
      files |-> [f \in {<<OutputDir, "notes", ".json">>, <<OutputDir, "notes", ".txt">>}
                   |-> OtherFile]]}

InitStoreIdle ==
    /\ dirExists = FALSE
    /\ files = <<>>
    /\ saves = [s \in Saves |-> IdleSave]
    /\ loaded = NotLoaded
    /\ listed = NotListed

InitCalcIdle == calcCall = NoCall /\ calcResult = NoResult

(***************************************************************************)
(* Spec: one run of the application, from the form to the returned triple. *)
(***************************************************************************)
Init == InitCalcIdle /\ InitFlowIdle /\ InitStoreIdle

Next ==
    \/ \E form \in Forms : Main(1, form)
    \/ RunMultiAgentFlow(1)
    \/ AdvisorAnalyze(1)
    \/ RiskAnalyze(1)
    \/ CreatePlan(1)
    \/ \E text \in Texts : LlmReturns(1, text)
    \/ \E e \in Errors : LlmRaises(1, e)
    \/ FlowReturn(1)
    \/ Tick

Spec == Init /\ [][Next]_vars

(***************************************************************************)
(* SpecFlow: run_multi_agent_flow called on its own, without main's        *)
(* validation of the form.                                                 *)
(***************************************************************************)
NextFlow ==
    \/ \E ud \in Forms : CallRunMultiAgentFlow(1, ud)
    \/ RunMultiAgentFlow(1)
    \/ AdvisorAnalyze(1)
    \/ RiskAnalyze(1)
    \/ CreatePlan(1)
    \/ \E text \in Texts : LlmReturns(1, text)
    \/ \E e \in Errors : LlmRaises(1, e)
    \/ FlowReturn(1)
    \/ Tick

SpecFlow == Init /\ [][NextFlow]_vars

(***************************************************************************)
(* SpecRuns: several runs, interleaved at the generator calls, sharing the *)
(* generator handle.                                                       *)
(***************************************************************************)
NextRuns ==
    \E r \in Runs :
        \/ \E form \in Forms : Main(r, form)
        \/ RunMultiAgentFlow(r)
        \/ AdvisorAnalyze(r)
        \/ RiskAnalyze(r)
        \/ CreatePlan(r)
        \/ \E text \in ShortTexts : LlmReturns(r, text)
        \/ \E e \in ShortErrors : LlmRaises(r, e)
        \/ FlowReturn(r)

SpecRuns == Init /\ [][NextRuns]_vars

(***************************************************************************)
(* SpecAgent: one Agent instance whose respond is called repeatedly.       *)
(***************************************************************************)
DirectPrompts == {<<"p">>, <<"q">>}

InitAgent ==
    /\ InitCalcIdle
    /\ InitStoreIdle
    /\ now = 0
    /\ pc = [r \in Runs |-> IF r = 1 THEN "agent_ready" ELSE "idle"]
    /\ user_data = [r \in Runs |-> NoForm]
    /\ sip_calc = [r \in Runs |-> FormSip(NoForm)]
    /\ agents = [r \in Runs |->
                    IF r = 1 THEN [s \in {"direct"} |-> NewAgent(1, s)] ELSE <<>>]
    /\ lists = [id \in {NewAgent(1, "direct").conversation_history} |-> <<>>]
    /\ pending = [r \in Runs |-> NoPending]
    /\ outputs = [r \in Runs |-> NoOutputs]
    /\ flowResult = [r \in Runs |-> <<>>]
    /\ invoked = [r \in Runs |-> <<>>]
    /\ made = [r \in Runs |-> <<>>]

NextAgent ==
    \/ \E prompt \in DirectPrompts : DirectRespond(1, prompt, "")
    \/ \E text \in Texts : LlmReturns(1, text)
    \/ \E e \in Errors : LlmRaises(1, e)
    \/ Tick

SpecAgent == InitAgent /\ [][NextAgent]_vars

(***************************************************************************)
(* SpecStore: save_conversation calls and load_conversation calls on one   *)
(* directory, interleaved at their statements, while the clock runs.       *)
(***************************************************************************)
NextStore ==
    \/ \E s \in Saves :
          \/ \E args \in SaveArgs : SaveConversation(s, args)
          \/ SaveDateReadable(s)
          \/ SaveMakedirs(s)
          \/ SaveFilename(s)
          \/ SaveOpen(s)
          \/ SaveWrite(s)
    \/ \E path \in Paths : LoadConversation(path)
    \/ Tick

SpecStore == Init /\ [][NextStore]_vars

(***************************************************************************)
(* SpecList: saves into a directory that may exist and may hold other      *)
(* files, and then listings of it.                                         *)
(***************************************************************************)
InitList ==
    /\ InitCalcIdle /\ InitFlowIdle
    /\ \E d \in Directories : dirExists = d.exists /\ files = d.files
    /\ saves = [s \in Saves |-> IdleSave]
    /\ loaded = NotLoaded
    /\ listed = NotListed

NextList ==
    \/ /\ listed = NotListed
       /\ \E s \in Saves :
             \/ \E args \in SaveArgs : SaveConversation(s, args)
             \/ SaveDateReadable(s)
             \/ SaveMakedirs(s)
             \/ SaveFilename(s)
             \/ SaveOpen(s)
             \/ SaveWrite(s)
    \/ ListConversations
    \/ listed = NotListed /\ Tick

SpecList == InitList /\ [][NextList]_vars

(***************************************************************************)
(* Claims about the pipeline.                                              *)
(***************************************************************************)
Failed(r, k) == made[r][k].outcome = "error"

\* C1: in every run the generator is invoked exactly three times, in the order
\* advisor, risk analyst, planner; a stage is invoked only after the previous
\* stage's respond has returned its text, and no stage is invoked twice (a
\* failed invocation is not repeated).
C1_ThreeInvocationsInOrder ==
    \A r \in Runs :
        /\ Len(invoked[r]) <= 3
        /\ \A k \in 1..Len(invoked[r]) :
              /\ invoked[r][k].stage = Stages[k]
              /\ \A j \in 1..(k - 1) :
                    /\ invoked[r][k].seen[Stages[j]] # Unset
                    /\ invoked[r][k].seen[Stages[j]] = made[r][j].returned
        /\ Len(made[r]) <= Len(invoked[r])
        /\ Len(invoked[r]) <= Len(made[r]) + 1
        /\ pc[r] \in {"return", "done"} => Len(invoked[r]) = 3 /\ Len(made[r]) = 3

\* a run has returned after its risk stage's invocation failed
C1_Witness ==
    /\ pc[1] = "done"
    /\ Len(invoked[1]) = 3
    /\ Failed(1, 2)

\* C2: the risk stage's prompt contains verbatim the text the advisor stage
\* returned, the planner stage's prompt contains verbatim the texts the advisor
\* and the risk stage returned, and when a stage's prompt is sent no later
\* stage has produced an output.
C2_PromptsCarryEarlierTexts ==
    \A r \in Runs : \A k \in 1..Len(invoked[r]) :
        LET call == invoked[r][k]
        IN  /\ call.stage = "risk_analyst" =>
                  /\ made[r][1].stage = "advisor"
                  /\ Contains(call.human, made[r][1].returned)
            /\ call.stage = "planner" =>
                  /\ made[r][1].stage = "advisor"
                  /\ made[r][2].stage = "risk_analyst"
                  /\ Contains(call.human, made[r][1].returned)
                  /\ Contains(call.human, made[r][2].returned)
            /\ \A j \in k..3 : call.seen[Stages[j]] = Unset

\* the planner has been invoked after the advisor returned a text that strip()
\* shortened and the risk stage returned a text of its own
C2_Witness ==
    /\ Len(invoked[1]) = 3
    /\ made[1][1].outcome = "ok"
    /\ made[1][1].returned # <<>>
    /\ made[1][1].returned # made[1][1].entry.response
    /\ made[1][2].returned # <<>>

\* C3 as stated: whatever stages fail, the run invokes every later stage and
\* returns three non-empty texts, a failed stage's text being the error
\* placeholder that embeds the failure detail and that later stages receive.
C3_FailSoftNonEmptyTexts ==
    \A r \in Runs :
        /\ pc[r] # "raised"
        /\ pc[r] = "done" =>
              /\ Len(invoked[r]) = 3
              /\ Len(flowResult[r]) = 3
              /\ \A k \in 1..3 :
                    /\ flowResult[r][k] # <<>>
                    /\ Failed(r, k) =>
                          /\ flowResult[r][k] = <<"Truti: ">> \o made[r][k].entry.error
                          /\ \A j \in (k + 1)..3 :
                                Contains(invoked[r][j].human, flowResult[r][k])

\* C3 as amended: whatever stages fail, the run invokes every later stage and
\* returns three texts; a failed stage's text is the non-empty error placeholder
\* that embeds the failure detail, and it is what later stages receive; the
\* text of a stage that succeeded is the stripped generated text (which may be
\* empty).
C3_FailSoft ==
    \A r \in Runs :
        /\ pc[r] # "raised"
        /\ pc[r] = "done" =>
              /\ Len(invoked[r]) = 3
              /\ Len(flowResult[r]) = 3
              /\ \A k \in 1..3 :
                    /\ flowResult[r][k] # Unset
                    /\ Failed(r, k) =>
                          /\ flowResult[r][k] # <<>>
                          /\ flowResult[r][k] = <<"Truti: ">> \o made[r][k].entry.error
                          /\ \A j \in (k + 1)..3 :
                                Contains(invoked[r][j].human, flowResult[r][k])
                    /\ ~Failed(r, k) =>
                          flowResult[r][k] = Strip(made[r][k].entry.response)

\* the risk stage alone failed, with a detail, and the run returned
C3_Witness ==
    /\ pc[1] = "done"
    /\ ~Failed(1, 1)
    /\ Failed(1, 2)
    /\ made[1][2].entry.error # <<>>
    /\ ~Failed(1, 3)
    /\ flowResult[1][1] # <<>>
    /\ flowResult[1][3] # <<>>

RespondCompletes(r) == pc[r] = "wait" /\ pc'[r] # "wait"

\* C6: every call of respond extends that agent's conversation_history by
\* exactly one entry at the end and leaves the earlier entries as they were;
\* the entry holds role, prompt, context, response and timestamp when the
\* generator succeeded, and role, error and timestamp but no response when it
\* failed.  Nothing else changes a history.
C6_RespondAppendsOneEntry ==
    [][/\ \A r \in Runs :
            RespondCompletes(r) =>
                LET agent == agents[r][pending[r].stage]
                    old == lists[agent.conversation_history]
                    new == lists'[agent.conversation_history]
                    entry == new[Len(new)]
                    log == made'[r]
                IN  /\ Len(new) = Len(old) + 1
                    /\ SubSeq(new, 1, Len(old)) = old
                    /\ entry.role = agent.role
                    /\ entry.timestamp = now
                    /\ IF log[Len(log)].outcome = "ok"
                       THEN /\ DOMAIN entry = {"role", "prompt", "context",
                                               "response", "timestamp"}
                            /\ entry.prompt = pending[r].prompt
                            /\ entry.context = pending[r].context
                       ELSE /\ {"role", "error", "timestamp"} \subseteq DOMAIN entry
                            /\ "response" \notin DOMAIN entry
       /\ (\A r \in Runs : ~RespondCompletes(r)) => lists' = lists]_vars

\* an agent's history holds a success entry followed by a failure entry
C6_Witness ==
    \E id \in DOMAIN lists :
        /\ Len(lists[id]) = 2
        /\ "response" \in DOMAIN lists[id][1]
        /\ "error" \in DOMAIN lists[id][2]

\* the entries that run r's calls of stage s produced, in call order
EntriesMadeBy(r, s) ==
    LET OfStage(m) == m.stage = s
        sel == SelectSeq(made[r], OfStage)
    IN  [i \in 1..Len(sel) |-> sel[i].entry]

\* C7: with runs interleaved and sharing the generator handle, each role
\* instance's conversation_history holds exactly the entries of its own run's
\* calls of that role, at most one, and no entry of another run.
C7_HistoriesArePerRun ==
    \A r \in Runs :
        agents[r] # <<>> =>
            \A s \in StageSet :
                LET history == lists[agents[r][s].conversation_history]
                IN  /\ Len(history) <= 1
                    /\ history = EntriesMadeBy(r, s)

\* two runs have both completed, each with its three entries
C7_Witness ==
    /\ pc[1] = "done"
    /\ pc[2] = "done"
    /\ \A s \in StageSet : Len(lists[agents[1][s].conversation_history]) = 1
    /\ \A s \in StageSet : Len(lists[agents[2][s].conversation_history]) = 1

(***************************************************************************)
(* Claims about the transcript store (checked under SpecStore).            *)
(***************************************************************************)
\* the loaded dict carries the user_input, the calculations and the three
\* output texts that were the arguments of save s
LoadedEqualsArgs(s) ==
    /\ loaded.status = "ok"
    /\ Has(loaded.data, "user_input")
    /\ Get(loaded.data, "user_input") = UserInputJson(saves[s].args.user_data)
    /\ Has(loaded.data, "calculations")
    /\ Get(loaded.data, "calculations") = CalculationsJson(saves[s].args.sip_calc)
    /\ Has(loaded.data, "agent_outputs")
    /\ LET out == Get(loaded.data, "agent_outputs")
       IN  /\ \A stage \in StageSet : Has(out, stage) /\ Has(Get(out, stage), "output")
           /\ Get(Get(out, "advisor"), "output") = JStr(saves[s].args.advisor_output)
           /\ Get(Get(out, "risk_analyst"), "output") = JStr(saves[s].args.risk_output)
           /\ Get(Get(out, "planner"), "output") = JStr(saves[s].args.planner_output)

\* C4, as stated: whenever a file is loaded, every save that had returned
\* that file's path before the load finds its own arguments in the result.
C4_RoundTrip ==
    \A s \in loaded.after : loaded.path = saves[s].filename => LoadedEqualsArgs(s)

\* C4, amended: a load_conversation of the path a save_conversation call
\* returned yields user_input, calculations and the three output texts equal
\* to that call's arguments, provided no other save_conversation call has
\* opened or written that path between this call's opening of the file and
\* the load.
C4_RoundTripUndisturbed ==
    \A s \in loaded.intact : loaded.path = saves[s].filename => LoadedEqualsArgs(s)

\* a load gave back the arguments of a save whose texts need escaping, after
\* an earlier save had already used the same path
C4_Witness ==
    \E s \in loaded.intact :
        /\ loaded.path = saves[s].filename
        /\ LoadedEqualsArgs(s)
        /\ \E i \in 1..Len(saves[s].args.advisor_output) :
              saves[s].args.advisor_output[i] = "\""
        /\ \E q \in loaded.after : q # s /\ saves[q].filename = loaded.path

\* C5: two completed saves whose file names come from the same second have
\* returned the same path; the file at that path holds exactly the record of
\* the one that wrote last, and no file holds the other's record.
C5_LastWriteWins ==
    \A s, q \in Saves :
        (/\ s # q
         /\ saves[s].pc = "done"
         /\ saves[q].pc = "done"
         /\ saves[s].filename = saves[q].filename
         /\ files[saves[s].filename].writer = s)
        => /\ Returned(s) = Returned(q)
           /\ files[Returned(s)].content = SaveData(s)
           /\ SaveData(q) # SaveData(s)
              => \A f \in DOMAIN files : files[f].content # SaveData(q)

(***************************************************************************)
(* The calculator's inputs.  Amounts are thousandths of a rupee, rates are *)
(* whole per cent per year; CalcFits keeps the exact arithmetic inside the *)
(* checker's integers.                                                     *)
(***************************************************************************)
Amounts == {-1000, 0, 5, 15, 125} \cup {2505 * k : k \in 1..MaxAmountSteps}
Years == -1..MaxYears
Rates == {-2400, -1200, -600, 0, 600, 1200}

Max2(a, b) == IF a >= b THEN a ELSE b

CalcFits(amount, years, annual_rate) ==
    IF years <= 0 THEN TRUE
    ELSE LET rn == RateNum(annual_rate)
             rd == RateDen(annual_rate)
             n == Periods(years)
             p == SatPow(Max2(Abs(rd + rn), rd), n)
             k == 2 * Max2(Max2(Abs(amount) * Abs(rn) * n, Abs(amount) * rd), 20 * rd)
         IN  p <= ArithCap \div k

CallCalculateSip ==
    \E a \in Amounts, y \in Years, rate \in Rates :
        /\ CalcFits(a, y, rate)
        /\ calcCall' = [fn |-> "calculate_sip", amount |-> a, years |-> y,
                        annual_rate |-> rate]
        /\ calcResult' = CalculateSip(a, y, rate)
        /\ UNCHANGED <<flowVars, storeVars>>

CallCalculateEmi ==
    \E a \in Amounts, y \in Years, rate \in Rates :
        /\ CalcFits(a, y, rate)
        /\ calcCall' = [fn |-> "calculate_emi", amount |-> a, years |-> y,
                        annual_rate |-> rate]
        /\ calcResult' = CalculateEmi(a, y, rate)
        /\ UNCHANGED <<flowVars, storeVars>>

\* the call of the docstring example and of the module's self-test,
\* calculate_sip(1000000, 5, 12.0)
WorkedExamples == {<<1000000000, 5, 12>>}

CallWorkedExample ==
    \E call \in WorkedExamples :
        /\ calcCall' = [fn |-> "calculate_sip", amount |-> call[1], years |-> call[2],
                        annual_rate |-> call[3]]
        /\ calcResult' = CalculateSipWide(call[1], call[2], call[3])
        /\ UNCHANGED <<flowVars, storeVars>>

(***************************************************************************)
(* SpecSummary: one call of summarize_short (the function keeps no state,  *)
(* so one call per behaviour covers every call).                           *)
(***************************************************************************)
MaxSummaryText == 5
MaxSummaryLength == 3

SummaryTexts == SeqsUpTo({"a", "b", " ", "\n"}, MaxSummaryText)

CallSummarizeShort ==
    \E text \in SummaryTexts, max_length \in 1..MaxSummaryLength :
        /\ calcCall = NoCall
        /\ calcCall' = [fn |-> "summarize_short", text |-> text,
                        max_length |-> max_length]
        /\ calcResult' = [status |-> "ok", text |-> SummarizeShort(text, max_length)]
        /\ UNCHANGED <<flowVars, storeVars>>

NextSummary == CallSummarizeShort

SpecSummary == Init /\ [][NextSummary]_vars

(***************************************************************************)
(* SpecFormat: calls of format_inr.                                        *)
(***************************************************************************)
MaxWholeDigits == 8

Wholes ==
    {0, 7, 12}
    \cup UNION {{Pow(10, k), Pow(10, k) - 1, Pow(10, k) + Pow(10, k) \div 4} :
                   k \in 2..MaxWholeDigits}
Fracs == {0, 4, 100, 125, 375, 500, 890, 994, 996, 999}
FormatAmounts == [neg : BOOLEAN, whole : Wholes, frac : Fracs]

CallFormatInr ==
    \E amount \in FormatAmounts :
        /\ calcCall' = [fn |-> "format_inr", amount |-> amount, years |-> 0,
                        annual_rate |-> 0]
        /\ calcResult' = [status |-> "ok", text |-> FormatInr(amount)]
        /\ UNCHANGED <<flowVars, storeVars>>

InitCalc == InitCalcIdle /\ InitFlowIdle /\ InitStoreIdle

NextFormat == CallFormatInr

SpecFormat == InitCalc /\ [][NextFormat]_vars

NextCalc == CallCalculateSip \/ CallCalculateEmi \/ CallWorkedExample

SpecCalc == InitCalc /\ [][NextCalc]_vars

(***************************************************************************)
(* Claims about the calculator (checked under SpecCalc).                   *)
(***************************************************************************)
IsSipCall == calcCall.fn = "calculate_sip"
IsEmiCall == calcCall.fn = "calculate_emi"
DegenerateCall == calcCall.years <= 0 \/ calcCall.amount <= 0

\* C8: whenever years <= 0 or the amount <= 0, calculate_sip returns a result
\* whose four fields are all 0 and calculate_emi one whose three fields are all
\* 0, whatever the annual rate; neither raises.
C8_DegenerateInputsGiveZero ==
    /\ (IsSipCall /\ DegenerateCall) =>
          /\ calcResult.status = "ok"
          /\ calcResult.monthly_sip = 0
          /\ calcResult.total_investment = 0
          /\ calcResult.expected_returns = 0
          /\ calcResult.total_value = 0
    /\ (IsEmiCall /\ DegenerateCall) =>
          /\ calcResult.status = "ok"
          /\ calcResult.monthly_emi = 0
          /\ calcResult.total_payment = 0
          /\ calcResult.total_interest = 0

\* a call with years = 0, a positive amount and the rate at which the formula's
\* denominator vanishes has returned the zero result
C8_Witness ==
    /\ IsSipCall
    /\ calcCall.years = 0
    /\ calcCall.amount > 0
    /\ calcCall.annual_rate = -2400
    /\ calcResult = ZeroSip

\* C9: every field of every result returned by calculate_sip and calculate_emi
\* is non-negative, for all inputs.
C9_AllFieldsNonNegative ==
    /\ (IsSipCall /\ calcResult.status = "ok") =>
          /\ calcResult.monthly_sip >= 0
          /\ calcResult.total_investment >= 0
          /\ calcResult.expected_returns >= 0
          /\ calcResult.total_value >= 0
    /\ (IsEmiCall /\ calcResult.status = "ok") =>
          /\ calcResult.monthly_emi >= 0
          /\ calcResult.total_payment >= 0
          /\ calcResult.total_interest >= 0

\* C10: for years > 0, future_value > 0 and annual_rate >= 0, calculate_sip
\* returns rounded fields with total_investment + expected_returns within 0.01
\* (one hundredth) of total_value, and total_value is future_value rounded to
\* 2 decimals.
C10_SipIdentityWithinOneCent ==
    (IsSipCall /\ calcCall.years > 0 /\ calcCall.amount > 0
        /\ calcCall.annual_rate >= 0 /\ calcResult.status = "ok") =>
      /\ Abs(calcResult.total_investment + calcResult.expected_returns
              - calcResult.total_value) <= 1
      /\ calcResult.total_value = RoundHalfEven(calcCall.amount, 10)

\* a call in the claim's domain, at a positive rate, where rounding the three
\* fields separately has moved the sum off total_value by one hundredth
C10_Witness ==
    /\ IsSipCall
    /\ calcCall.years > 0
    /\ calcCall.amount > 0
    /\ calcCall.annual_rate > 0
    /\ calcResult.status = "ok"
    /\ Abs(calcResult.total_investment + calcResult.expected_returns
            - calcResult.total_value) = 1

\* the call of the worked example, calculate_sip(1000000, 5, 12.0)
IsWorkedExample ==
    /\ IsSipCall
    /\ calcCall.amount = 1000000000
    /\ calcCall.years = 5
    /\ calcCall.annual_rate = 12

IsFormatCall == calcCall.fn = "format_inr"

\* the reference string of an amount, written from its description: digit
\* i of L gets a comma before it when the digits from i on are 3, 5, 7, ...
RECURSIVE ReferenceGroups(_, _)
ReferenceGroups(digits, i) ==
    IF i > Len(digits) THEN <<>>
    ELSE LET left == Len(digits) - i + 1
         IN  (IF i > 1 /\ left >= 3 /\ (left - 3) % 2 = 0 THEN <<",">> ELSE <<>>)
             \o <<digits[i]>> \o ReferenceGroups(digits, i + 1)

ReferenceInr(amount) ==
    LET cents == RoundHalfEven(amount.frac, 10)
        rupees == amount.whole + cents \div 100
        dd == <<DigitChars[((cents % 100) \div 10) + 1], DigitChars[(cents % 10) + 1]>>
    IN  (IF IsNegative(amount) THEN <<"-">> ELSE <<>>)
        \o <<Rupee>> \o ReferenceGroups(DigitsOf(rupees), 1)
        \o (IF dd = <<"0", "0">> THEN <<>> ELSE <<".">> \o dd)

\* C12: for every amount, format_inr(amount) is the reference string: '-'
\* exactly when amount < 0, the rupee symbol, the grouped integer digits of
\* the rounded absolute value, and '.dd' exactly when dd is not '00'.
C12_FormatInrIsReference ==
    IsFormatCall => calcResult.text = ReferenceInr(calcCall.amount)

\* the same for every amount other than the negative zero
C12_ExceptNegativeZero ==
    (IsFormatCall /\ ~(calcCall.amount.neg /\ IsZeroAmount(calcCall.amount)))
    => calcResult.text = ReferenceInr(calcCall.amount)

(***************************************************************************)
(* Claims about summarize_short (checked under SpecSummary).               *)
(***************************************************************************)
IsSummaryCall == calcCall.fn = "summarize_short"

Ellipsis == <<".", ".", ".">>
CollapsedWords == SplitWords(calcCall.text, <<>>, <<>>)
Collapsed == JoinWords(CollapsedWords)

\* the result is some number of the text's leading words, single-spaced,
\* followed by the ellipsis
EndsOnWholeWord ==
    \E k \in 0..Len(CollapsedWords) :
        calcResult.text = JoinWords(SubSeq(CollapsedWords, 1, k)) \o Ellipsis

\* C13: empty text gives the empty string; a text whose collapsed form is
\* no longer than max_length gives that form; a longer one gives a prefix
\* of the collapsed form made of complete words only, then '...'.
C13_SummaryEndsOnWholeWord ==
    IsSummaryCall =>
        IF calcCall.text = <<>> THEN calcResult.text = <<>>
        ELSE IF Len(Collapsed) <= calcCall.max_length THEN calcResult.text = Collapsed
        ELSE EndsOnWholeWord

\* the same, for the texts whose first word is no longer than max_length
C13_ExceptLongFirstWord ==
    (IsSummaryCall /\ (CollapsedWords = <<>> \/ Len(CollapsedWords[1]) <= calcCall.max_length))
    => IF calcCall.text = <<>> THEN calcResult.text = <<>>
       ELSE IF Len(Collapsed) <= calcCall.max_length THEN calcResult.text = Collapsed
       ELSE EndsOnWholeWord

(***************************************************************************)
(* Claims about list_conversations (checked under SpecList).               *)
(***************************************************************************)
HasListed == listed.status = "ok"

\* the name finance_plan_<YYYYMMDD_HHMMSS>.json, in the directory
FollowsConvention(path) ==
    \E t \in Seconds : path = FilenameOf(OutputDir, t)

EntriesFor(path) == {i \in 1..Len(listed.entries) : listed.entries[i].filepath = path}

\* C14: a file of the directory has an entry in the listing if and only if
\* its name follows finance_plan_<YYYYMMDD_HHMMSS>.json; the listing of a
\* directory that does not exist is the empty sequence.
C14_ListsExactlyConventionNames ==
    HasListed =>
        /\ \A f \in DOMAIN listed.seen : EntriesFor(f) # {} <=> FollowsConvention(f)
        /\ ~listed.existed => listed.entries = <<>>

\* the part of C14 that holds: every transcript is listed, and a missing
\* directory gives the empty sequence
C14_ListsEveryTranscript ==
    HasListed =>
        /\ \A f \in DOMAIN listed.seen : FollowsConvention(f) => EntriesFor(f) # {}
        /\ ~listed.existed => listed.entries = <<>>

\* C15: the listing holds exactly one entry for each transcript file present,
\* and the entries are ordered newest first: an entry's modification time is
\* at least that of every entry after it.
C15_OneEntryEachNewestFirst ==
    HasListed =>
        /\ \A f \in DOMAIN listed.seen :
              FollowsConvention(f) => Cardinality(EntriesFor(f)) = 1
        /\ \A i, j \in 1..Len(listed.entries) :
              i < j => /\ listed.entries[i].modified_time
                            >= listed.entries[j].modified_time
                       /\ listed.entries[i].modified_time
                            = listed.seen[listed.entries[i].filepath].mtime

\* two saves have returned, in different seconds, and both files are listed
C15_Witness ==
    /\ HasListed
    /\ \A s \in Saves : saves[s].pc = "done"
    /\ \E i, j \in 1..Len(listed.entries) :
          /\ i < j
          /\ FollowsConvention(listed.entries[i].filepath)
          /\ FollowsConvention(listed.entries[j].filepath)
          /\ listed.entries[i].modified_time > listed.entries[j].modified_time

(***************************************************************************)
(* Claims about what save_conversation does to the directory (checked      *)
(* under SpecList).                                                        *)
(***************************************************************************)
\* the save that takes the step: its position or its offset changes
Steps(s) == <<saves'[s].pc, saves'[s].offset>> # <<saves[s].pc, saves[s].offset>>

\* the seconds from the call's first clock read to the one its file name
\* was taken at
NamedInItsRun(s) ==
    \E t0, t \in Seconds :
        /\ t0 <= t /\ t <= now
        /\ saves[s].timestamp = IsoFormat(t0)
        /\ saves[s].filename = FilenameOf(OutputDir, t)

SaveReturnsItsFile ==
    \A s \in Saves :
        /\ saves[s].pc # "raised"
        /\ saves[s].pc = "done" =>
              /\ NamedInItsRun(s)
              /\ Returned(s) = saves[s].filename
              /\ Returned(s) \in DOMAIN files
              /\ \A q \in Saves \ {s} :
                    (saves[q].pc = "done" /\ saves[q].filename # saves[s].filename)
                    => Returned(q) # Returned(s)

SaveTouchesItsFileOnly ==
    /\ DOMAIN files \subseteq DOMAIN files'
    /\ \A f \in DOMAIN files' :
          (IF f \in DOMAIN files THEN files'[f] # files[f] ELSE TRUE)
          => \E s \in Saves : Steps(s) /\ saves'[s].filename = f

\* C16: a save never raises, whether the directory exists or not and also
\* when another save creates it meanwhile; it creates or rewrites only the
\* file finance_plan_<second>.json of a second of its run, returns that
\* path, and changes no other file; saves named in different seconds return
\* different paths.
C16_SaveWritesOneFile ==
    [] SaveReturnsItsFile /\ [][SaveTouchesItsFileOnly]_vars

\* both saves have returned, with different paths, next to a file that was
\* in the directory before and is as it was
C16_Witness ==
    /\ \A s \in Saves : saves[s].pc = "done"
    /\ Returned(1) # Returned(2)
    /\ <<OutputDir, "notes", ".json">> \in DOMAIN files
    /\ files[<<OutputDir, "notes", ".json">>] = OtherFile

(***************************************************************************)
(* Claims about run_multi_agent_flow called on its own (checked under      *)
(* SpecFlow).                                                              *)
(***************************************************************************)
\* C17: no exception leaves run_multi_agent_flow while it builds a prompt,
\* whatever the user_data (monthly_income = 0 included) and whatever the
\* generator does: a run is never ended by an exception.
C17_NoExceptionEscapes ==
    \A r \in Runs : pc[r] # "raised"

\* the same, for the runs whose monthly_income is not zero
C17_ExceptZeroIncome ==
    \A r \in Runs : user_data[r].monthly_income # 0 => pc[r] # "raised"

(***************************************************************************)
(* Claims about the entry respond stores (checked under SpecAgent).        *)
(***************************************************************************)
Succeeded(r, k) == made[r][k].outcome = "ok"

\* C18: on a successful generator call the response stored in the appended
\* entry is the very text respond returns, also for generated text with
\* leading or trailing whitespace.
C18_StoredResponseIsReturned ==
    \A r \in Runs : \A k \in DOMAIN made[r] :
        Succeeded(r, k) => made[r][k].entry.response = made[r][k].returned

\* what holds instead: the returned text is the stored response, stripped
C18_ReturnedIsStoredStripped ==
    \A r \in Runs : \A k \in DOMAIN made[r] :
        Succeeded(r, k) => made[r][k].returned = Strip(made[r][k].entry.response)

(***************************************************************************)
(* Claims about loads that overlap saves (checked under SpecStore).        *)
(***************************************************************************)
\* the dict a load returns from a file that holds all of save s's text
WholeRecord(s) == JsonLoad(SaveData(s)).data

\* C19: a load never sees a partly written file: it fails because the file
\* does not exist, or it returns the complete record of one save of that
\* path; it does not fail with a parse error on what saves wrote.
C19_LoadNeverSeesPartialFile ==
    \/ loaded.status = "none"
    \/ loaded.status = "FileNotFoundError"
    \/ /\ loaded.status = "ok"
       /\ \E s \in Saves :
             /\ saves[s].pc \in {"open", "done"}
             /\ saves[s].filename = loaded.path
             /\ loaded.data = WholeRecord(s)

(***************************************************************************)
(* Claims about the three clock reads of a save (checked under SpecStore). *)
(***************************************************************************)
\* C20: for every transcript a save has written, the second in the file
\* name is the second of the record's timestamp, and date_readable is the
\* minute of that timestamp, however the clock moves during the save.
C20_NameSecondIsTimestampSecond ==
    \A s \in Saves :
        saves[s].pc = "done" =>
            \E t \in Seconds :
                /\ saves[s].filename = FilenameOf(OutputDir, t)
                /\ saves[s].timestamp = IsoFormat(t)
                /\ saves[s].date_readable = DateReadable(t)

====
